---- MODULE Spec2Model ----
(***************************************************************************)
(* Shader-program lifecycle and frame loop of the three example programs   *)
(* of the repository (render.go, unnamed/part_000, unnamed/part_001).      *)
(*                                                                         *)
(* The three files share compileShader and the skeleton of main; they      *)
(* differ in how createProgram reports a compile failure, in the geometry  *)
(* they upload and in the draw calls of a frame.  The variable `variant`   *)
(* selects the program being run.  The GL driver is a record `gl` of the   *)
(* objects it holds; the gl.* calls are operators on it that follow the    *)
(* OpenGL 3.3 object model (in particular: a shader that is deleted while  *)
(* attached to a program is only flagged for deletion).                    *)
(***************************************************************************)
EXTENDS Integers, Sequences, FiniteSets, TLC

\* Number of frames the loop is allowed to start (the loop itself is unbounded).
MaxFrames == 3

\* for i := 0; i < 10; i++
NumCubes == 10

Variants == {"render", "part000", "part001"}

VARIABLES
    variant,         \* which of the three programs runs
    pc,              \* position of the single thread
    gl,              \* objects held by the GL driver
    vertexShader,    \* createProgram's local
    fragmentShader,  \* createProgram's local
    shaderProgram,   \* createProgram's local
    ret,             \* value returned by the last createProgram call
    panicIn,         \* function that called panic ("none" while running)
    progs,           \* main's program handles, in order of creation
    VAO, VBO, EBO,   \* main's geometry handles
    shouldClose,     \* the window's should-close flag
    escKey,          \* cached state of the Escape key (set by PollEvents)
    frames,          \* number of frames started
    i,               \* loop counter of the instanced draw
    frameLog         \* GL/window calls issued in the current frame, in order

vars == <<variant, pc, gl, vertexShader, fragmentShader, shaderProgram, ret,
          panicIn, progs, VAO, VBO, EBO, shouldClose, escKey, frames, i,
          frameLog>>

cpLocals == <<vertexShader, fragmentShader, shaderProgram>>
geometry == <<VAO, VBO, EBO>>
window   == <<shouldClose, escKey>>
frame    == <<frames, i, frameLog>>

-----------------------------------------------------------------------------
(* The GL driver.                                                          *)

glInit ==
    [ shaders  |-> {},      \* live shader objects
      compiled |-> {},      \* shaders whose COMPILE_STATUS is TRUE
      flagged  |-> {},      \* shaders flagged for deletion, still attached
      programs |-> {},      \* live program objects
      linked   |-> {},      \* programs whose LINK_STATUS is TRUE
      attached |-> << >>,   \* program -> set of attached shaders
      next     |-> 1,       \* next unused shader/program name
      vaos     |-> {},      \* live vertex-array objects
      buffers  |-> << >>,   \* live buffer -> its data store
      uploads  |-> << >>,   \* live buffer -> number of BufferData calls
      nextObj  |-> 1 ]      \* next unused buffer/vertex-array name

\* gl.CreateShader: the new object's name is g.next
glCreateShader(g) ==
    [g EXCEPT !.shaders = @ \cup {g.next}, !.next = @ + 1]

\* gl.ShaderSource + gl.CompileShader; `ok` is the driver's verdict on the source
glCompileShader(g, s, ok) ==
    [g EXCEPT !.compiled = IF ok THEN @ \cup {s} ELSE @ \ {s}]

\* gl.DeleteShader: an attached shader is flagged, a free one is destroyed
glDeleteShader(g, s) ==
    IF s \notin g.shaders THEN g
    ELSE IF \E p \in g.programs : s \in g.attached[p]
         THEN [g EXCEPT !.flagged = @ \cup {s}]
         ELSE [g EXCEPT !.shaders = @ \ {s}, !.compiled = @ \ {s},
                        !.flagged = @ \ {s}]

\* gl.CreateProgram: the new object's name is g.next
glCreateProgram(g) ==
    [g EXCEPT !.programs = @ \cup {g.next},
              !.attached = (g.next :> {}) @@ @,
              !.next = @ + 1]

\* gl.AttachShader
glAttachShader(g, p, s) ==
    [g EXCEPT !.attached[p] = @ \cup {s}]

\* gl.LinkProgram; `ok` is the driver's verdict on the pair of stages
glLinkProgram(g, p, ok) ==
    [g EXCEPT !.linked = IF ok THEN @ \cup {p} ELSE @ \ {p}]

\* gl.GenVertexArrays(1, &x): the new name is g.nextObj
glGenVertexArray(g) ==
    [g EXCEPT !.vaos = @ \cup {g.nextObj}, !.nextObj = @ + 1]

\* gl.GenBuffers(1, &x): the new name is g.nextObj
glGenBuffer(g) ==
    [g EXCEPT !.buffers = (g.nextObj :> << >>) @@ @,
              !.uploads = (g.nextObj :> 0) @@ @,
              !.nextObj = @ + 1]

\* gl.BindBuffer(target, b) followed by gl.BufferData(target, ..., data, STATIC_DRAW)
glBufferData(g, b, data) ==
    [g EXCEPT !.buffers[b] = data, !.uploads[b] = @ + 1]

\* gl.DeleteVertexArrays(1, &x)
glDeleteVertexArray(g, x) ==
    [g EXCEPT !.vaos = @ \ {x}]

\* gl.DeleteBuffers(1, &x)
glDeleteBuffer(g, x) ==
    [g EXCEPT !.buffers = [b \in (DOMAIN @) \ {x} |-> @[b]],
              !.uploads = [b \in (DOMAIN @) \ {x} |-> @[b]]]

-----------------------------------------------------------------------------
(* Geometry constants of the three programs; floats are scaled by ten.     *)

vertices ==
    CASE variant = "render"  -> << 5, 5, 0,   5, -5, 0,   -5, -5, 0,   -5, 5, 0 >>
      [] variant = "part000" -> << 5, 5, 0,   5, -5, 0,   -5, -5, 0,   10, -5, 0 >>
      [] variant = "part001" -> <<
       -5, -5, -5, 10, 0, 0,
       5, -5, -5, 10, 0, 0,
       5, 5, -5, 10, 0, 0,
       5, 5, -5, 10, 0, 0,
       -5, 5, -5, 10, 0, 0,
       -5, -5, -5, 10, 0, 0,
       -5, -5, 5, 0, 10, 0,
       5, -5, 5, 0, 10, 0,
       5, 5, 5, 0, 10, 0,
       5, 5, 5, 0, 10, 0,
       -5, 5, 5, 0, 10, 0,
       -5, -5, 5, 0, 10, 0,
       -5, 5, 5, 0, 0, 10,
       -5, 5, -5, 0, 0, 10,
       -5, -5, -5, 0, 0, 10,
       -5, -5, -5, 0, 0, 10,
       -5, -5, 5, 0, 0, 10,
       -5, 5, 5, 0, 0, 10,
       5, 5, 5, 10, 10, 0,
       5, 5, -5, 10, 10, 0,
       5, -5, -5, 10, 10, 0,
       5, -5, -5, 10, 10, 0,
       5, -5, 5, 10, 10, 0,
       5, 5, 5, 10, 10, 0,
       -5, -5, -5, 10, 0, 10,
       5, -5, -5, 10, 0, 10,
       5, -5, 5, 10, 0, 10,
       5, -5, 5, 10, 0, 10,
       -5, -5, 5, 10, 0, 10,
       -5, -5, -5, 10, 0, 10,
       -5, 5, -5, 0, 10, 10,
       5, 5, -5, 0, 10, 10,
       5, 5, 5, 0, 10, 10,
       5, 5, 5, 0, 10, 10,
       -5, 5, 5, 0, 10, 10,
       -5, 5, -5, 0, 10, 10 >>

indices ==
    CASE variant = "render"  -> << 0, 1, 2,   0, 2, 3 >>
      [] variant = "part000" -> << 0, 1, 2,   0, 1, 3 >>
      [] variant = "part001" -> << >>

-----------------------------------------------------------------------------
(* compileShader and createProgram.                                        *)

\* compileShader(src, shaderType): `ok` stands for the source being accepted.
\* Returns the driver after the call, the shader handle and the error.
compileShader(g, ok) ==
    LET shader == g.next
        g1     == glCompileShader(glCreateShader(g), shader, ok)
    IN  IF shader \notin g1.compiled
        THEN [gl |-> g1, shader |-> 0,      err |-> "compile"]
        ELSE [gl |-> g1, shader |-> shader, err |-> "nil"]

\* Whether this variant's createProgram panics on a compile error instead of
\* returning it.
panicsOnCompileError == variant = "part000"

\* linkShaders without the LINK_STATUS test: the handle is returned whatever
\* the link did.
linkShaders_NoStatusTest(g, vs, fs, ok) ==
    LET p  == g.next
        g1 == glCreateProgram(g)
        g2 == glAttachShader(g1, p, vs)
        g3 == glAttachShader(g2, p, fs)
        g4 == glLinkProgram(g3, p, ok)
        g5 == glDeleteShader(g4, vs)
        g6 == glDeleteShader(g5, fs)
    IN  [gl |-> g6, program |-> p, handle |-> p, err |-> "nil"]

\* The part of createProgram after both stages compiled.
linkShaders(g, vs, fs, ok) ==
    LET p  == g.next
        g1 == glCreateProgram(g)
        g2 == glAttachShader(g1, p, vs)
        g3 == glAttachShader(g2, p, fs)
        g4 == glLinkProgram(g3, p, ok)
        g5 == glDeleteShader(g4, vs)
        g6 == glDeleteShader(g5, fs)
    IN  IF p \notin g6.linked
        THEN [gl |-> g6, program |-> p, handle |-> 0, err |-> "link"]
        ELSE [gl |-> g6, program |-> p, handle |-> p, err |-> "nil"]

Init ==
    /\ variant \in Variants
    /\ pc = "start"
    /\ gl = glInit
    /\ vertexShader = 0
    /\ fragmentShader = 0
    /\ shaderProgram = 0
    /\ ret = [handle |-> 0, err |-> "nil"]
    /\ panicIn = "none"
    /\ progs = << >>
    /\ VAO = 0
    /\ VBO = 0
    /\ EBO = 0
    /\ shouldClose = FALSE
    /\ escKey = FALSE
    /\ frames = 0
    /\ i = 0
    /\ frameLog = << >>

\* main: glfw.Init, window hints, glfw.CreateWindow, MakeContextCurrent, gl.Init;
\* any of them failing panics.  Then the first createProgram call is entered.
Startup ==
    /\ pc = "start"
    /\ \E ok \in BOOLEAN :
         IF ok
         THEN /\ pc' = "cp_vertex"
              /\ panicIn' = panicIn
              /\ ret' = ret
         ELSE /\ pc' = "aborted"
              /\ panicIn' = "main"
              /\ ret' = [handle |-> 0, err |-> "init"]
    /\ UNCHANGED <<variant, gl, cpLocals, progs, geometry, window, frame>>

\* createProgram: vertexShader, err := compileShader(vertexSrc, gl.VERTEX_SHADER)
CompileVertex ==
    /\ pc = "cp_vertex"
    /\ \E ok \in BOOLEAN :
         LET r == compileShader(gl, ok) IN
         /\ gl' = r.gl
         /\ vertexShader' = r.shader
         /\ fragmentShader' = 0
         /\ shaderProgram' = 0
         /\ IF r.err # "nil"
            THEN /\ ret' = [handle |-> 0, err |-> r.err]
                 /\ IF panicsOnCompileError
                    THEN pc' = "aborted" /\ panicIn' = "createProgram"
                    ELSE pc' = "main_check" /\ panicIn' = panicIn
            ELSE /\ ret' = [handle |-> 0, err |-> "nil"]
                 /\ pc' = "cp_fragment"
                 /\ panicIn' = panicIn
    /\ UNCHANGED <<variant, progs, geometry, window, frame>>

\* createProgram: fragmentShader, err := compileShader(fragmentSrc, gl.FRAGMENT_SHADER)
CompileFragment ==
    /\ pc = "cp_fragment"
    /\ \E ok \in BOOLEAN :
         LET r == compileShader(gl, ok) IN
         /\ gl' = r.gl
         /\ fragmentShader' = r.shader
         /\ IF r.err # "nil"
            THEN /\ ret' = [handle |-> 0, err |-> r.err]
                 /\ IF panicsOnCompileError
                    THEN pc' = "aborted" /\ panicIn' = "createProgram"
                    ELSE pc' = "main_check" /\ panicIn' = panicIn
            ELSE /\ ret' = ret
                 /\ pc' = "cp_link"
                 /\ panicIn' = panicIn
    /\ UNCHANGED <<variant, vertexShader, shaderProgram, progs, geometry,
                   window, frame>>

\* createProgram: CreateProgram, AttachShader x2, LinkProgram, DeleteShader x2,
\* the LINK_STATUS test and the return.
LinkProgram ==
    /\ pc = "cp_link"
    /\ \E ok \in BOOLEAN :
         LET r == linkShaders(gl, vertexShader, fragmentShader, ok) IN
         /\ gl' = r.gl
         /\ shaderProgram' = r.program
         /\ ret' = [handle |-> r.handle, err |-> r.err]
    /\ pc' = "main_check"
    /\ UNCHANGED <<variant, vertexShader, fragmentShader, panicIn, progs,
                   geometry, window, frame>>

\* Number of createProgram calls main makes.
programsWanted == IF variant = "part000" THEN 2 ELSE 1

\* main: if err != nil { panic(err) } after a createProgram call
MainCheck ==
    /\ pc = "main_check"
    /\ IF ret.err # "nil"
       THEN /\ pc' = "aborted"
            /\ panicIn' = "main"
            /\ progs' = progs
       ELSE /\ progs' = Append(progs, ret.handle)
            /\ panicIn' = panicIn
            /\ pc' = IF Len(progs') < programsWanted THEN "cp_vertex" ELSE "setup"
    /\ UNCHANGED <<variant, gl, cpLocals, ret, geometry, window, frame>>

\* main: GenVertexArrays, GenBuffers x2, BindVertexArray, BufferData of the
\* vertices and (where the program has one) of the indices, attribute layout.
Setup ==
    /\ pc = "setup"
    /\ LET vao == gl.nextObj
           g1  == glGenVertexArray(gl)
           vbo == g1.nextObj
           g2  == glGenBuffer(g1)
           ebo == g2.nextObj
           g3  == glGenBuffer(g2)
           g4  == glBufferData(g3, vbo, vertices)
           g5  == IF variant = "part001" THEN g4
                  ELSE glBufferData(g4, ebo, indices)
       IN  /\ VAO' = vao
           /\ VBO' = vbo
           /\ EBO' = ebo
           /\ gl' = g5
    /\ pc' = "loopTest"
    /\ UNCHANGED <<variant, cpLocals, ret, panicIn, progs, window, frame>>

\* One entry of frameLog.
Call(op, name, a, b) == [op |-> op, name |-> name, a |-> a, b |-> b]

\* LoopTest with the loop condition tested on the key instead of the flag:
\* for window.GetKey(glfw.KeyEscape) != glfw.Press { ... }
LoopTest_TestsKey ==
    /\ pc = "loopTest"
    /\ IF escKey
       THEN /\ pc' = "cleanup"
            /\ UNCHANGED frame
       ELSE /\ frames < MaxFrames
            /\ pc' = "keyCheck"
            /\ frames' = frames + 1
            /\ frameLog' = << >>
            /\ i' = i
    /\ UNCHANGED <<variant, gl, cpLocals, ret, panicIn, progs, geometry, window>>

\* for !window.ShouldClose() { ... }
LoopTest ==
    /\ pc = "loopTest"
    /\ IF shouldClose
       THEN /\ pc' = "cleanup"
            /\ UNCHANGED frame
       ELSE /\ frames < MaxFrames
            /\ pc' = "keyCheck"
            /\ frames' = frames + 1
            /\ frameLog' = << >>
            /\ i' = i
    /\ UNCHANGED <<variant, gl, cpLocals, ret, panicIn, progs, geometry, window>>

\* if window.GetKey(glfw.KeyEscape) == glfw.Press { window.SetShouldClose(true) }
KeyCheck ==
    /\ pc = "keyCheck"
    /\ IF escKey
       THEN /\ shouldClose' = TRUE
            /\ frameLog' = Append(frameLog, Call("SetShouldClose", "", 1, 0))
       ELSE /\ shouldClose' = shouldClose
            /\ frameLog' = frameLog
    /\ pc' = "beginFrame"
    /\ UNCHANGED <<variant, gl, cpLocals, ret, panicIn, progs, geometry,
                   escKey, frames, i>>

\* gl.ClearColor, gl.Clear, gl.BindVertexArray(VAO), gl.UseProgram(first program)
BeginFrame ==
    /\ pc = "beginFrame"
    /\ frameLog' = frameLog \o << Call("Clear", "", 0, 0),
                                  Call("BindVertexArray", "", VAO, 0),
                                  Call("UseProgram", "", progs[1], 0) >>
    /\ pc' = IF variant = "part000" THEN "drawRed" ELSE "uniforms"
    /\ UNCHANGED <<variant, gl, cpLocals, ret, panicIn, progs, geometry,
                   window, frames, i>>

\* render.go: UniformMatrix4fv of model, view, projection.
\* part_001:  UniformMatrix4fv of view, projection; then i := 0.
Uniforms ==
    /\ pc = "uniforms"
    /\ frameLog' = frameLog \o
         (IF variant = "render"
          THEN << Call("UniformMatrix4fv", "model", 0, 0),
                  Call("UniformMatrix4fv", "view", 0, 0),
                  Call("UniformMatrix4fv", "projection", 0, 0) >>
          ELSE << Call("UniformMatrix4fv", "view", 0, 0),
                  Call("UniformMatrix4fv", "projection", 0, 0) >>)
    /\ i' = 0
    /\ pc' = IF variant = "render" THEN "drawQuad" ELSE "drawCube"
    /\ UNCHANGED <<variant, gl, cpLocals, ret, panicIn, progs, geometry,
                   window, frames>>

\* render.go: gl.DrawElements(gl.TRIANGLES, 6, gl.UNSIGNED_INT, gl.PtrOffset(0))
DrawQuad ==
    /\ pc = "drawQuad"
    /\ frameLog' = Append(frameLog, Call("DrawElements", "", 6, 0))
    /\ pc' = "swap"
    /\ UNCHANGED <<variant, gl, cpLocals, ret, panicIn, progs, geometry,
                   window, frames, i>>

\* part_000: gl.DrawElements(gl.TRIANGLES, 3, gl.UNSIGNED_INT, gl.PtrOffset(0))
DrawRed ==
    /\ pc = "drawRed"
    /\ frameLog' = Append(frameLog, Call("DrawElements", "", 3, 0))
    /\ pc' = "drawYellow"
    /\ UNCHANGED <<variant, gl, cpLocals, ret, panicIn, progs, geometry,
                   window, frames, i>>

\* part_000: gl.UseProgram(yellowShaderProgram);
\*           gl.DrawElements(gl.TRIANGLES, 3, gl.UNSIGNED_INT, gl.PtrOffset(3*4))
DrawYellow ==
    /\ pc = "drawYellow"
    /\ frameLog' = frameLog \o << Call("UseProgram", "", progs[2], 0),
                                  Call("DrawElements", "", 3, 3 * 4) >>
    /\ pc' = "swap"
    /\ UNCHANGED <<variant, gl, cpLocals, ret, panicIn, progs, geometry,
                   window, frames, i>>

\* DrawCube with the two calls of the loop body swapped: the draw call comes
\* before the upload of its instance's model matrix.
DrawCube_DrawBeforeUpload ==
    /\ pc = "drawCube"
    /\ i < NumCubes
    /\ frameLog' = frameLog \o << Call("DrawArrays", "", 0, 36),
                                  Call("UniformMatrix4fv", "model", i, 0) >>
    /\ i' = i + 1
    /\ pc' = IF i + 1 < NumCubes THEN "drawCube" ELSE "swap"
    /\ UNCHANGED <<variant, gl, cpLocals, ret, panicIn, progs, geometry,
                   window, frames>>

\* part_001: one iteration of for i := 0; i < 10; i++ { model upload; DrawArrays }
DrawCube ==
    /\ pc = "drawCube"
    /\ i < NumCubes
    /\ frameLog' = frameLog \o << Call("UniformMatrix4fv", "model", i, 0),
                                  Call("DrawArrays", "", 0, 36) >>
    /\ i' = i + 1
    /\ pc' = IF i + 1 < NumCubes THEN "drawCube" ELSE "swap"
    /\ UNCHANGED <<variant, gl, cpLocals, ret, panicIn, progs, geometry,
                   window, frames>>

\* window.SwapBuffers()
SwapBuffers ==
    /\ pc = "swap"
    /\ frameLog' = Append(frameLog, Call("SwapBuffers", "", 0, 0))
    /\ pc' = "poll"
    /\ UNCHANGED <<variant, gl, cpLocals, ret, panicIn, progs, geometry,
                   window, frames, i>>

\* glfw.PollEvents(): the key state is refreshed, and a close request of the
\* window system raises should-close (it is never lowered).
PollEvents ==
    /\ pc = "poll"
    /\ \E key \in BOOLEAN, close \in BOOLEAN :
         /\ escKey' = key
         /\ shouldClose' = (shouldClose \/ close)
    /\ pc' = "loopTest"
    /\ UNCHANGED <<variant, gl, cpLocals, ret, panicIn, progs, geometry, frame>>

\* main after the loop: DeleteVertexArrays(VAO), DeleteBuffers(VBO),
\* DeleteBuffers(EBO), glfw.Terminate()
Cleanup ==
    /\ pc = "cleanup"
    /\ gl' = glDeleteBuffer(glDeleteBuffer(glDeleteVertexArray(gl, VAO), VBO), EBO)
    /\ pc' = "done"
    /\ UNCHANGED <<variant, cpLocals, ret, panicIn, progs, geometry, window, frame>>

Next ==
    \/ Startup
    \/ CompileVertex
    \/ CompileFragment
    \/ LinkProgram
    \/ MainCheck
    \/ Setup
    \/ LoopTest
    \/ KeyCheck
    \/ BeginFrame
    \/ Uniforms
    \/ DrawQuad
    \/ DrawRed
    \/ DrawYellow
    \/ DrawCube
    \/ SwapBuffers
    \/ PollEvents
    \/ Cleanup

Spec == Init /\ [][Next]_vars

-----------------------------------------------------------------------------
(* Helpers of the properties.                                              *)

IsDraw(e) == e.op \in {"DrawElements", "DrawArrays"}

\* The draw calls of the current frame, in order.
Draws == SelectSeq(frameLog, IsDraw)

IsRender(e) == e.op \notin {"SetShouldClose", "Clear"}

\* The current frame's calls from binding the vertex array on.
Rendering == SelectSeq(frameLog, IsRender)

IsPrefix(s, t) == Len(s) <= Len(t) /\ \A k \in 1..Len(s) : s[k] = t[k]

\* Positions after the current frame's buffer swap.
PostSwap == pc \in {"poll", "loopTest", "cleanup", "done"}

\* Positions inside a frame, from the key check to the buffer swap.
MidFrame == pc \in {"beginFrame", "uniforms", "drawQuad", "drawRed",
                    "drawYellow", "drawCube", "swap"}

\* The Escape key was seen pressed by the current frame's key check.
EscObserved == \E k \in 1..Len(frameLog) : frameLog[k].op = "SetShouldClose"

\* The draw calls one complete frame of the running program issues.
DrawsPerFrame ==
    CASE variant = "render"  -> 1
      [] variant = "part000" -> 2
      [] variant = "part001" -> NumCubes

\* h is a live, successfully linked program made of two compiled stages.
ProgramOK(h) ==
    /\ h # 0
    /\ h \in gl.programs
    /\ h \in gl.linked
    /\ Cardinality(gl.attached[h]) = 2
    /\ gl.attached[h] \subseteq gl.compiled

-----------------------------------------------------------------------------
(* The claims.                                                             *)

\* C1: when compileShader finds that compilation failed it frees the shader
\* object it allocated: the live shader objects after a failing call are those
\* before it, and the caller gets an error and no shader object.
C1_FailedCompileFreesShader ==
    [][ (pc \in {"cp_vertex", "cp_fragment"} /\ ret'.err = "compile")
          => /\ gl'.shaders = gl.shaders
             /\ pc = "cp_vertex" => vertexShader' = 0
             /\ pc = "cp_fragment" => fragmentShader' = 0 ]_vars

\* C2: after a failed link, the program object created by that createProgram
\* call is no longer alive in the driver.
C2_FailedLinkDeletesProgram ==
    (pc = "main_check" /\ ret.err = "link") => shaderProgram \notin gl.programs

\* C3: when createProgram returns a program (both stages compiled, the link
\* succeeded), the two stage objects are detached from it and no longer
\* exist, and the driver holds one more object than before the first compile:
\* one program for each successful call so far.
C3_StagesGoneAfterLink ==
    (pc = "main_check" /\ ret.err = "nil")
      => /\ vertexShader \notin gl.shaders
         /\ fragmentShader \notin gl.shaders
         /\ gl.attached[shaderProgram] = {}
         /\ Cardinality(gl.shaders \cup gl.programs) = Len(progs) + 1

C5_BuilderNeverAborts ==
    panicIn # "createProgram"

\* C6: cooperative close.  When the key check sees Escape pressed, should-close
\* is set; the frame is not cut short (it goes on to its draw calls and its
\* swap, and after the swap all of its draw calls have been issued); and once
\* should-close is set and the frame's swap is past, no further call is issued
\* and no new frame starts.
C6_CooperativeClose ==
    /\ [](EscObserved => shouldClose)
    /\ []((EscObserved /\ PostSwap)
            => /\ Len(Draws) = DrawsPerFrame
               /\ frameLog[Len(frameLog)].op = "SwapBuffers")
    /\ [][ /\ (pc = "keyCheck" /\ escKey) => (pc' = "beginFrame" /\ EscObserved')
           /\ (EscObserved /\ MidFrame)
                => ((MidFrame' \/ pc' = "poll") /\ IsPrefix(frameLog, frameLog'))
           /\ (shouldClose /\ PostSwap)
                => (PostSwap' /\ shouldClose' /\ frameLog' = frameLog
                    /\ frames' = frames) ]_vars

\* C6 witness: Escape was seen during a frame and the program ran to its end.
C6_Witness ==
    EscObserved /\ pc = "done" /\ Len(Draws) = DrawsPerFrame

\* C7: once the program has run to its end, every GPU resource it created has
\* been released: no shader object, program, buffer or vertex array is left.
C7_AllReleasedAtShutdown ==
    pc = "done"
      => /\ gl.shaders = {}
         /\ gl.programs = {}
         /\ DOMAIN gl.buffers = {}
         /\ gl.vaos = {}

\* C8: in the indexed programs the vertex buffer holds 4 positions, the index
\* buffer holds {0,1,2, 0,2,3}, each frame issues two indexed draws of 3
\* indices at byte offsets 0 and 12, and each buffer is uploaded exactly once.
C8_TwoTriangleQuad ==
    (variant \in {"render", "part000"} /\ pc = "poll")
      => /\ Len(gl.buffers[VBO]) = 4 * 3
         /\ gl.buffers[EBO] = << 0, 1, 2, 0, 2, 3 >>
         /\ Draws = << Call("DrawElements", "", 3, 0),
                       Call("DrawElements", "", 3, 12) >>
         /\ gl.uploads[VBO] = 1
         /\ gl.uploads[EBO] = 1

\* The calls of one frame of the instanced-cubes program, from binding the
\* vertex array to the swap, as C9 states them.
C9_ExpectedFrame ==
    [k \in 1..(4 + 2 * NumCubes + 1) |->
        IF k = 1 THEN Call("BindVertexArray", "", VAO, 0)
        ELSE IF k = 2 THEN Call("UseProgram", "", progs[1], 0)
        ELSE IF k = 3 THEN Call("UniformMatrix4fv", "view", 0, 0)
        ELSE IF k = 4 THEN Call("UniformMatrix4fv", "projection", 0, 0)
        ELSE IF k = 4 + 2 * NumCubes + 1 THEN Call("SwapBuffers", "", 0, 0)
        ELSE IF (k - 4) % 2 = 1
             THEN Call("UniformMatrix4fv", "model", (k - 5) \div 2, 0)
             ELSE Call("DrawArrays", "", 0, 36)]

\* C9: in the instanced-cubes program a frame binds the vertex array and the
\* program, uploads view once and projection once, then for i = 0..9 uploads
\* the model of instance i followed by one draw call, then swaps: the calls
\* issued so far are always a prefix of that sequence, and the whole of it
\* once the swap is past.
C9_InstancedFrameOrder ==
    (variant = "part001" /\ frames > 0)
      => /\ IsPrefix(Rendering, C9_ExpectedFrame)
         /\ PostSwap => Rendering = C9_ExpectedFrame

\* C9 witness: a complete frame of the instanced-cubes program.
C9_Witness ==
    /\ variant = "part001"
    /\ pc = "poll"
    /\ Len(Draws) = NumCubes
    /\ Len(Rendering) = 4 + 2 * NumCubes + 1

\* C10: when the vertex stage compiled and the fragment stage failed,
\* createProgram does not link and leaves the vertex shader object destroyed.
C10_VertexFreedOnFragmentFailure ==
    (pc \in {"main_check", "aborted"} /\ ret.err = "compile" /\ vertexShader # 0)
      => /\ shaderProgram = 0
         /\ gl.programs \ {progs[k] : k \in 1..Len(progs)} = {}
         /\ vertexShader \notin gl.shaders

====
